---- MODULE Spec2Model ----
(***************************************************************************)
(* Model of tools/scaffold_from_tree.py: the block extractor, the line     *)
(* filter, the tree parser and the scaffold builder.                       *)
(*                                                                         *)
(* A Python str is a sequence of one-character tokens.  The box-drawing    *)
(* characters are written with ASCII stand-ins (VBAR, TEE, ELBOW, HBAR);   *)
(* a run of three backticks is the single token FENCE of width 3, so the   *)
(* texts of the model are the texts whose backticks come in triples.       *)
(***************************************************************************)
EXTENDS Integers, Sequences, FiniteSets, TLC

VARIABLES markdown, block, flines, fpc,
          lines, pc, i, root_dir, entries, dir_stack, cur,
          sentries, force, dfc, fs, call, results

frontVars == <<markdown, block, flines, fpc>>
parseVars == <<lines, pc, i, root_dir, entries, dir_stack, cur>>
buildVars == <<sentries, force, dfc, fs, call, results>>
vars == <<frontVars, parseVars, buildVars>>

(***************************************************************************)
(* Characters                                                              *)
(***************************************************************************)
VBAR == "|"
TEE == "+"
ELBOW == "L"
HBAR == "~"
SP == " "
NL == "\n"
SLASH == "/"
BSLASH == "\\"
HASH == "#"
FENCE == "FENCE"

TREE_CHARS == <<VBAR, TEE, ELBOW, HBAR>>

\* str.strip()/\s of the alphabet: the space and the newline
Whitespace == {SP, NL}

\* [a-zA-Z0-9_-] of the alphabet
LangChars == {"a", "b", "c", "o", "p", "r", "t", "x", "y"}

Range(s) == {s[n] : n \in 1..Len(s)}

Min(a, b) == IF a < b THEN a ELSE b

\* the width in characters of a text (FENCE stands for three backticks)
StrLen(s) == Len(s) + 2 * Cardinality({n \in 1..Len(s) : s[n] = FENCE})

\* number of leading characters of s that are in set
LeadCount(s, set) ==
    IF \E n \in 1..Len(s) : s[n] \notin set
    THEN (CHOOSE n \in 1..Len(s) :
              /\ s[n] \notin set
              /\ \A m \in 1..(n - 1) : s[m] \in set) - 1
    ELSE Len(s)

\* number of trailing characters of s that are in set
TrailCount(s, set) ==
    IF \E n \in 1..Len(s) : s[n] \notin set
    THEN Len(s) - (CHOOSE n \in 1..Len(s) :
                       /\ s[n] \notin set
                       /\ \A m \in (n + 1)..Len(s) : s[m] \in set)
    ELSE Len(s)

LStrip(s, set) == SubSeq(s, LeadCount(s, set) + 1, Len(s))

RStrip(s, set) == SubSeq(s, 1, Len(s) - TrailCount(s, set))

Strip(s, set) == LStrip(RStrip(s, set), set)

\* sub in s
Contains(s, sub) ==
    \E n \in 1..(Len(s) - Len(sub) + 1) : SubSeq(s, n, n + Len(sub) - 1) = sub

StartsWith(s, pre) == Len(s) >= Len(pre) /\ SubSeq(s, 1, Len(pre)) = pre

\* s.split(sep): the pieces of s between the occurrences of the character sep
RECURSIVE SplitOn(_, _)
SplitOn(s, sep) ==
    IF sep \notin Range(s) THEN <<s>>
    ELSE LET n == CHOOSE n \in 1..Len(s) :
                      s[n] = sep /\ \A m \in 1..(n - 1) : s[m] # sep
         IN <<SubSeq(s, 1, n - 1)>> \o SplitOn(SubSeq(s, n + 1, Len(s)), sep)

\* sep.join(parts)
RECURSIVE Join(_, _)
Join(parts, sep) ==
    IF parts = <<>> THEN <<>>
    ELSE IF Len(parts) = 1 THEN parts[1]
    ELSE parts[1] \o <<sep>> \o Join(Tail(parts), sep)

\* [x for x in s if keep]
RECURSIVE SelectSeqIn(_, _)
SelectSeqIn(s, set) ==
    IF s = <<>> THEN <<>>
    ELSE (IF Head(s) \in set THEN <<Head(s)>> ELSE <<>>) \o SelectSeqIn(Tail(s), set)

(***************************************************************************)
(* Block extractor: extract_tree_block                                     *)
(***************************************************************************)
\* first index >= p of md that is not a language-tag character
RECURSIVE SkipLang(_, _)
SkipLang(md, p) ==
    IF p <= Len(md) /\ md[p] \in LangChars THEN SkipLang(md, p + 1) ELSE p

\* first index >= p of md holding a fence, 0 when there is none
RECURSIVE NextFence(_, _)
NextFence(md, p) ==
    IF p > Len(md) THEN 0
    ELSE IF md[p] = FENCE THEN p
    ELSE NextFence(md, p + 1)

\* re.findall(r"```(?:[a-zA-Z0-9_-]*)\n(.*?)```", markdown, flags=re.S),
\* scanning from index p: the non-overlapping matches, left to right
RECURSIVE FindFences(_, _)
FindFences(md, p) ==
    IF p > Len(md) THEN <<>>
    ELSE IF md[p] # FENCE THEN FindFences(md, p + 1)
    ELSE LET q == SkipLang(md, p + 1)
             c == IF q <= Len(md) /\ md[q] = NL THEN NextFence(md, q + 1) ELSE 0
         IN IF c = 0 THEN FindFences(md, p + 1)
            ELSE <<SubSeq(md, q + 1, c - 1)>> \o FindFences(md, c + 1)

\* sorted(fences, key=len, reverse=True): stable, so the first of the longest
\* blocks comes first
RECURSIVE SortByLenDesc(_)
SortByLenDesc(fences) ==
    IF fences = <<>> THEN <<>>
    ELSE LET n == CHOOSE n \in 1..Len(fences) :
                      /\ \A m \in 1..Len(fences) : StrLen(fences[m]) <= StrLen(fences[n])
                      /\ \A m \in 1..(n - 1) : StrLen(fences[m]) < StrLen(fences[n])
         IN <<fences[n]>> \o
            SortByLenDesc(SubSeq(fences, 1, n - 1) \o SubSeq(fences, n + 1, Len(fences)))

\* any(ch in block for ch in TREE_CHARS) or (" /" in block) or ("\\" in block)
LooksLikeTree(blk) ==
    \/ \E n \in 1..Len(TREE_CHARS) : TREE_CHARS[n] \in Range(blk)
    \/ Contains(blk, <<SP, SLASH>>)
    \/ BSLASH \in Range(blk)

extract_tree_block(md) ==
    LET fences == SortByLenDesc(FindFences(md, 1))
    IN IF fences # <<>>
       THEN IF \E n \in 1..Len(fences) : LooksLikeTree(fences[n])
            THEN Strip(fences[CHOOSE n \in 1..Len(fences) :
                                  /\ LooksLikeTree(fences[n])
                                  /\ \A m \in 1..(n - 1) : ~LooksLikeTree(fences[m])],
                       Whitespace)
            ELSE Strip(fences[1], Whitespace)
       ELSE Strip(md, Whitespace)

(***************************************************************************)
(* Line filter: is_tree_line, parse_tree_lines                             *)
(***************************************************************************)
is_tree_line(line) ==
    IF Strip(line, Whitespace) = <<>> THEN FALSE
    ELSE \/ TEE \in Range(line)
         \/ ELBOW \in Range(line)
         \/ VBAR \in Range(line)
         \/ Contains(line, <<HBAR, HBAR>>)
         \/ SLASH \in Range(line)
         \/ BSLASH \in Range(line)

\* str.splitlines(): the lines of blk, without a last empty one
SplitLines(blk) ==
    LET parts == SplitOn(blk, NL)
    IN IF parts[Len(parts)] = <<>> THEN SubSeq(parts, 1, Len(parts) - 1) ELSE parts

RECURSIVE KeepTreeLines(_)
KeepTreeLines(lns) ==
    IF lns = <<>> THEN <<>>
    ELSE (IF is_tree_line(Head(lns)) THEN <<RStrip(Head(lns), Whitespace)>> ELSE <<>>)
         \o KeepTreeLines(Tail(lns))

parse_tree_lines(blk) == KeepTreeLines(SplitLines(blk))

(***************************************************************************)
(* Tree parser: normalize_root_and_entries                                 *)
(***************************************************************************)
TreeCharSet == Range(TREE_CHARS)

\* the lookback window of tree_depth: original_line[:indent_level + 10]
DepthWindow == 10

\* s.split(): the non-empty pieces of s between runs of whitespace
WsSplit(s) ==
    LET spaced == [n \in 1..Len(s) |-> IF s[n] \in Whitespace THEN SP ELSE s[n]]
    IN SelectSeq(SplitOn(spaced, SP), LAMBDA piece : piece # <<>>)

\* Path(name): empty and "." segments dropped, "." for the empty path
PathOf(name) ==
    LET segs == SelectSeq(SplitOn(name, SLASH),
                          LAMBDA seg : seg # <<>> /\ seg # <<".">>)
    IN IF segs = <<>>
       THEN (IF StartsWith(name, <<SLASH>>) THEN <<SLASH>> ELSE <<".">>)
       ELSE (IF StartsWith(name, <<SLASH>>) THEN <<SLASH>> ELSE <<>>) \o Join(segs, SLASH)

\* root_line.strip(TREE_CHARS + " ").strip() of lines[0].strip()
RootText(root_line) ==
    Strip(Strip(Strip(root_line, Whitespace), TreeCharSet \cup {SP}), Whitespace)

\* the root name of a root line whose RootText has a token
RootName(root_line) ==
    LET tokens == WsSplit(RootText(root_line))
        last == tokens[Len(tokens)]
        bare == Strip(SelectSeqIn(last, Range(last) \ (TreeCharSet \cup {SP})), Whitespace)
    IN PathOf(RStrip(bare, {SLASH}))

\* len(re.match(r'^([\s|]*)', ln).group(1)): the leading run of whitespace and
\* vertical bars
LeadRun(ln) == LeadCount(ln, Whitespace \cup {VBAR})

\* re.sub of a leading branch marker (tee or elbow plus two dashes, or two
\* dashes) and the whitespace after it
StripBranch(s) ==
    IF StartsWith(s, <<TEE, HBAR, HBAR>>) \/ StartsWith(s, <<ELBOW, HBAR, HBAR>>)
    THEN LStrip(SubSeq(s, 4, Len(s)), Whitespace)
    ELSE IF StartsWith(s, <<HBAR, HBAR>>)
    THEN LStrip(SubSeq(s, 3, Len(s)), Whitespace)
    ELSE s

\* the text s of a line after the clean-up and the removal of a comment; empty
\* when the line is skipped
Label(ln) ==
    LET s == Strip(StripBranch(LStrip(ln, Whitespace \cup TreeCharSet)), Whitespace)
    IN IF s = <<>> THEN <<>> ELSE Strip(SplitOn(s, HASH)[1], Whitespace)

\* s.endswith("/") or s.endswith(os.sep)
EndsWithSep(s) == s # <<>> /\ s[Len(s)] = SLASH

\* filename = s.rstrip("/").strip()
FileName(s) == Strip(RStrip(s, {SLASH}), Whitespace)

\* lines.index(original_line): the first position holding a line equal to ln
IndexOf(lns, ln) ==
    CHOOSE n \in 1..Len(lns) : lns[n] = ln /\ \A m \in 1..(n - 1) : lns[m] # ln

\* the lookahead loop: the first non-blank line after lines.index(original_line)
\* is more indented than the current line
NextIsDeeper(lns, ln) ==
    LET next_lines == SubSeq(lns, IndexOf(lns, ln) + 1, Len(lns))
        solid == {n \in 1..Len(next_lines) : Strip(next_lines[n], Whitespace) # <<>>}
    IN /\ solid # {}
       /\ LeadRun(next_lines[CHOOSE n \in solid : \A m \in solid : n <= m]) > LeadRun(ln)

IsDir(lns, ln) == EndsWithSep(Label(ln)) \/ NextIsDeeper(lns, ln)

\* len(re.findall(r'[|+L]', original_line[:indent_level + 10]))
TreeDepth(ln) ==
    LET window == SubSeq(ln, 1, Min(Len(ln), LeadRun(ln) + DepthWindow))
    IN Cardinality({n \in 1..Len(window) : window[n] \in {VBAR, TEE, ELBOW}})

\* the pop loop with > in place of >=: one name too many stays on the stack
PopToStrict(stack, depth) == SubSeq(stack, 1, Min(Len(stack), depth))

\* while len(dir_stack) >= tree_depth: dir_stack.pop(), for tree_depth >= 1
PopTo(stack, depth) == SubSeq(stack, 1, Min(Len(stack), depth - 1))

\* the path assembly without the directory stack
RelPathBare(stack, filename) == filename

\* "/".join(dir_stack + [filename]) if dir_stack else filename
RelPath(stack, filename) ==
    IF stack # <<>> THEN Join(stack \o <<filename>>, SLASH) ELSE filename

(***************************************************************************)
(* Inputs of the parser: candidate lines, as parse_tree_lines returns them *)
(***************************************************************************)
\* the largest number of entry lines after the root line
MaxLines == 3

LineRoot == <<"r", "o", "o", "t", SLASH>>
LineConnRoot == <<TEE, HBAR, HBAR>>
LineSlashRoot == <<SLASH>>
LineADir == <<TEE, HBAR, HBAR, SP, "a", SLASH>>
LineA == <<TEE, HBAR, HBAR, SP, "a">>
LineB == <<VBAR, SP, SP, SP, ELBOW, HBAR, HBAR, SP, "b", ".", "t", "x", "t">>
LineC == <<ELBOW, HBAR, HBAR, SP, "c", ".", "t", "x", "t">>
LineSpB == <<SP, SP, SP, SP, ELBOW, HBAR, HBAR, SP, "b", ".", "t", "x", "t">>
LineDeepC == <<VBAR, SP, SP, SP, VBAR, SP, SP, SP, ELBOW, HBAR, HBAR, SP,
               "c", ".", "t", "x", "t">>
LinePlain == <<SP, SP, "b", SLASH>>
LineComment == <<VBAR, SP, SP, SP, HASH, SP, "c">>

RootLines == {LineRoot, LineConnRoot, LineSlashRoot}

EntryLines == {LineADir, LineA, LineB, LineC, LineSpB, LineDeepC, LinePlain, LineComment}

\* a line the line filter can return: it keeps it and has trimmed it
IsCandidate(ln) == is_tree_line(ln) /\ RStrip(ln, Whitespace) = ln

CandidateLists ==
    {<<>>} \cup
    {<<r>> \o rest :
        r \in {ln \in RootLines : IsCandidate(ln)},
        rest \in UNION {[1..n -> {ln \in EntryLines : IsCandidate(ln)}] : n \in 0..MaxLines}}

NoEntry == [filename |-> <<>>, is_dir |-> FALSE]

FrontIdle == markdown = <<>> /\ block = <<>> /\ flines = <<>> /\ fpc = "off"

ParseIdle ==
    /\ lines = <<>> /\ pc = "off" /\ i = 0 /\ root_dir = <<>>
    /\ entries = <<>> /\ dir_stack = <<>> /\ cur = NoEntry

BuildIdle ==
    /\ sentries = <<>> /\ force = FALSE /\ dfc = <<>> /\ fs = <<>>
    /\ call = <<>> /\ results = <<>>

(***************************************************************************)
(* normalize_root_and_entries as a process: pc is its position             *)
(***************************************************************************)
ParseInit ==
    /\ lines \in CandidateLists
    /\ pc = "start" /\ i = 0 /\ root_dir = <<>>
    /\ entries = <<>> /\ dir_stack = <<>> /\ cur = NoEntry
    /\ FrontIdle /\ BuildIdle

\* if not lines: return Path("."), []
ReturnEmpty ==
    /\ pc = "start" /\ lines = <<>>
    /\ root_dir' = <<".">> /\ pc' = "done"
    /\ UNCHANGED <<lines, i, entries, dir_stack, cur, frontVars, buildVars>>

\* root_name.split()[-1] of a root line without a token: IndexError
RootRaise ==
    /\ pc = "start" /\ lines # <<>>
    /\ WsSplit(RootText(lines[1])) = <<>>
    /\ pc' = "raised"
    /\ UNCHANGED <<lines, i, root_dir, entries, dir_stack, cur, frontVars, buildVars>>

RootExtract ==
    /\ pc = "start" /\ lines # <<>>
    /\ WsSplit(RootText(lines[1])) # <<>>
    /\ root_dir' = RootName(lines[1])
    /\ i' = 2 /\ pc' = "loop"
    /\ UNCHANGED <<lines, entries, dir_stack, cur, frontVars, buildVars>>

\* if not s: continue
SkipLine ==
    /\ pc = "loop" /\ i <= Len(lines)
    /\ Label(lines[i]) = <<>>
    /\ i' = i + 1
    /\ UNCHANGED <<lines, pc, root_dir, entries, dir_stack, cur, frontVars, buildVars>>

\* the classification of the line and the pop loop, for tree_depth >= 1
AdjustStack ==
    /\ pc = "loop" /\ i <= Len(lines)
    /\ Label(lines[i]) # <<>>
    /\ TreeDepth(lines[i]) >= 1
    /\ cur' = [filename |-> FileName(Label(lines[i])), is_dir |-> IsDir(lines, lines[i])]
    /\ dir_stack' = PopTo(dir_stack, TreeDepth(lines[i]))
    /\ pc' = "emit"
    /\ UNCHANGED <<lines, i, root_dir, entries, frontVars, buildVars>>

\* tree_depth = 0: len(dir_stack) >= 0 always holds, the loop empties the stack
\* and dir_stack.pop() raises IndexError
PopRaise ==
    /\ pc = "loop" /\ i <= Len(lines)
    /\ Label(lines[i]) # <<>>
    /\ TreeDepth(lines[i]) = 0
    /\ cur' = [filename |-> FileName(Label(lines[i])), is_dir |-> IsDir(lines, lines[i])]
    /\ dir_stack' = <<>>
    /\ pc' = "raised"
    /\ UNCHANGED <<lines, i, root_dir, entries, frontVars, buildVars>>

\* path assembly, entries.append, dir_stack.append
EmitEntry ==
    /\ pc = "emit"
    /\ entries' = Append(entries, <<RelPath(dir_stack, cur.filename), cur.is_dir>>)
    /\ dir_stack' = IF cur.is_dir THEN Append(dir_stack, cur.filename) ELSE dir_stack
    /\ i' = i + 1 /\ pc' = "loop"
    /\ UNCHANGED <<lines, root_dir, cur, frontVars, buildVars>>

\* return root_dir, entries
Return ==
    /\ pc = "loop" /\ i > Len(lines)
    /\ pc' = "done"
    /\ UNCHANGED <<lines, i, root_dir, entries, dir_stack, cur, frontVars, buildVars>>

ParseNext ==
    \/ ReturnEmpty
    \/ RootRaise
    \/ RootExtract
    \/ SkipLine
    \/ AdjustStack
    \/ PopRaise
    \/ EmitEntry
    \/ Return

SpecParse == ParseInit /\ [][ParseNext]_vars

(***************************************************************************)
(* Properties of the parser                                                *)
(***************************************************************************)
C1Lines == <<LineRoot, LineADir, LineB, LineC>>

NameA == <<"a">>
NameB == <<"b", ".", "t", "x", "t">>
NameC == <<"c", ".", "t", "x", "t">>

\* C1: the lines root/, +-- a/, |   L-- b.txt, L-- c.txt parse without error to
\* the root name root and the entries (a, dir), (a/b.txt, file), (c.txt, file),
\* in that order; a is on the directory stack when b.txt is emitted and is
\* popped when c.txt is emitted.
C1_ExampleTree ==
    lines = C1Lines =>
        /\ pc # "raised"
        /\ (pc = "done" =>
                /\ root_dir = <<"r", "o", "o", "t">>
                /\ entries = << <<NameA, TRUE>>,
                                <<NameA \o <<SLASH>> \o NameB, FALSE>>,
                                <<NameC, FALSE>> >>)
        /\ (pc = "emit" /\ i = 3 => cur.filename = NameB /\ dir_stack = <<NameA>>)
        /\ (pc = "emit" /\ i = 4 => cur.filename = NameC /\ dir_stack = <<>>)

C1_Witness == lines = C1Lines /\ pc = "done" /\ Len(entries) = 3

\* C2: normalize_root_and_entries never raises: no run of the parser reaches
\* the raised position, for any list of candidate lines.
C2_NeverRaises == pc # "raised"

\* the nearest entry line before position n with a strictly smaller leading
\* run, 0 when there is none
DiagramParent(lns, n) ==
    LET above == {m \in 2..(n - 1) :
                      Label(lns[m]) # <<>> /\ LeadRun(lns[m]) < LeadRun(lns[n])}
    IN IF above = {} THEN 0 ELSE CHOOSE m \in above : \A k \in above : k <= m

\* the path of the line at position n by its diagram parents
RECURSIVE DiagramPath(_, _)
DiagramPath(lns, n) ==
    IF DiagramParent(lns, n) = 0 THEN FileName(Label(lns[n]))
    ELSE DiagramPath(lns, DiagramParent(lns, n)) \o <<SLASH>> \o FileName(Label(lns[n]))

\* C3: the path emitted for an entry line is the path of its diagram parent
\* (the nearest preceding entry line with a strictly smaller leading run)
\* joined by / with its own label.
C3_PathFollowsDiagram ==
    pc = "emit" => RelPath(dir_stack, cur.filename) = DiagramPath(lines, i)

\* the positions of the entry lines: the lines after the root that are not
\* skipped
EntryPositions(lns) == SelectSeq([n \in 1..Len(lns) |-> n],
                                 LAMBDA n : n > 1 /\ Label(lns[n]) # <<>>)

\* C9: in the returned list, the entry of the line at position p is a directory
\* exactly when its label ends with a separator or the line at position p+1
\* has a strictly larger leading run than line p.
C9_LookaheadFromOwnPosition ==
    pc = "done" /\ lines # <<>> =>
        LET at == EntryPositions(lines)
        IN /\ Len(entries) = Len(at)
           /\ \A n \in 1..Len(at) :
                  entries[n][2] <=>
                      \/ EndsWithSep(Label(lines[at[n]]))
                      \/ /\ at[n] < Len(lines)
                         /\ LeadRun(lines[at[n] + 1]) > LeadRun(lines[at[n]])

\* C10 as stated: after the pop loop and before the entry is appended the
\* stack's length is exactly one less than the line's tree depth.
C10_StackExactlyBelowDepth ==
    pc = "emit" => Len(dir_stack) = TreeDepth(lines[i]) - 1

\* C10 as amended: after the pop loop and before the entry is appended the
\* stack's length is at most one less than the line's tree depth (it is
\* shorter where the depth rises by more than one).
C10_StackBelowDepth ==
    pc = "emit" => Len(dir_stack) <= TreeDepth(lines[i]) - 1

C10_Witness ==
    /\ pc = "emit"
    /\ entries # <<>>
    /\ Len(dir_stack) < TreeDepth(lines[i]) - 1

(***************************************************************************)
(* main(), from the source text to the candidate lines:                    *)
(* block = extract_tree_block(markdown); lines = parse_tree_lines(block)   *)
(***************************************************************************)
\* the largest number of segments (fenced blocks, prose) of a source text
MaxBlocks == 2

\* a code sample: no connector, no slash
BodyCode == <<"x", "x", "x", "x", "x", "x", "x", "x", "x", "x", "x", "x", NL>>
\* src-like tree in plain indentation: "c/", "  b.txt"
BodyPlainTree == <<"c", SLASH, NL, SP, SP, "b", ".", "t", "x", "t", NL>>
\* a slash after a space: "x /a"
BodySpaceSlash == <<"x", SP, SLASH, "a", NL>>
\* a root without a trailing slash over a connector line: "root", "+-- a"
BodyConnTree == <<"r", "o", "o", "t", NL, TEE, HBAR, HBAR, SP, "a", NL>>
\* a backslash path: "a\b"
BodyBackslash == <<"a", BSLASH, "b", NL>>

Fenced(lang, body) == <<FENCE>> \o lang \o <<NL>> \o body \o <<FENCE, NL>>

Segments ==
    { Fenced(<<>>, BodyCode),
      Fenced(<<"p", "y">>, BodyCode),
      Fenced(<<>>, BodyPlainTree),
      Fenced(<<>>, BodySpaceSlash),
      Fenced(<<>>, BodyConnTree),
      Fenced(<<>>, BodyBackslash),
      \* a fence whose tag is followed by a space: no block opens here
      <<FENCE, "p", SP, "x", NL>>,
      \* prose
      <<"t", "x", "t", SP, "x", NL>>,
      BodyPlainTree }

RECURSIVE Concat(_)
Concat(parts) == IF parts = <<>> THEN <<>> ELSE Head(parts) \o Concat(Tail(parts))

Markdowns == {Concat(parts) : parts \in UNION {[1..n -> Segments] : n \in 0..MaxBlocks}}

FrontInit ==
    /\ markdown \in Markdowns
    /\ block = <<>> /\ flines = <<>> /\ fpc = "start"
    /\ ParseIdle /\ BuildIdle

ExtractBlock ==
    /\ fpc = "start"
    /\ block' = extract_tree_block(markdown)
    /\ fpc' = "extracted"
    /\ UNCHANGED <<markdown, flines, parseVars, buildVars>>

FilterLines ==
    /\ fpc = "extracted"
    /\ flines' = parse_tree_lines(block)
    /\ fpc' = "filtered"
    /\ UNCHANGED <<markdown, block, parseVars, buildVars>>

FrontNext == ExtractBlock \/ FilterLines

SpecFront == FrontInit /\ [][FrontNext]_vars

(***************************************************************************)
(* Properties of the block extractor and the line filter                   *)
(***************************************************************************)
\* a line that is only a name (letters and dots, a slash allowed at its end)
\* after its leading whitespace
PlainEntry(ln) ==
    LET name == LStrip(ln, Whitespace)
    IN /\ name # <<>>
       /\ RStrip(name, {SLASH}) # <<>>
       /\ Range(RStrip(name, {SLASH})) \subseteq LangChars \cup {"."}

\* C7: the line filter keeps the root line (a name on the first line of the
\* block, with or without a trailing slash) and every plain indented entry
\* without connector characters.
C7_KeepsRootAndPlainEntries ==
    fpc = "filtered" =>
        LET lns == SplitLines(block)
        IN \A n \in 1..Len(lns) :
               (PlainEntry(lns[n]) /\ (n = 1 \/ lns[n][1] \in Whitespace))
                   => lns[n] \in Range(flines)

\* a block that qualifies by any slash: a connector character, a
\* forward slash (anywhere) or a backslash
QualifiesAnySlash(blk) ==
    \/ Range(blk) \cap TreeCharSet # {}
    \/ SLASH \in Range(blk)
    \/ BSLASH \in Range(blk)

\* C8: with fenced blocks, the result is the longest block that holds a
\* connector character, a forward slash or a backslash; the longest block when
\* none does; the trimmed input when there is no fenced block.
C8_LongestQualifyingBlock ==
    fpc # "start" =>
        LET fences == SortByLenDesc(FindFences(markdown, 1))
            good == {n \in 1..Len(fences) : QualifiesAnySlash(fences[n])}
        IN block = IF fences = <<>> THEN Strip(markdown, Whitespace)
                   ELSE IF good = {} THEN Strip(fences[1], Whitespace)
                   ELSE Strip(fences[CHOOSE n \in good : \A m \in good : n <= m],
                              Whitespace)

(***************************************************************************)
(* Scaffold builder: create_scaffold over a file system                    *)
(*                                                                         *)
(* A path is the sequence of its segments below base_root, which is an     *)
(* existing directory.  A node is absent, a directory or a file with its   *)
(* content.                                                                *)
(***************************************************************************)
\* the largest number of entries of an entry list
MaxEntries == 2
\* the largest number of invocations over the same inputs
MaxCalls == 2

Absent == [kind |-> "none", content |-> <<>>]
Dir == [kind |-> "dir", content |-> <<>>]
File(content) == [kind |-> "file", content |-> content]

\* root, as the parser returns it, and the relative paths of the entries (a and
\* a/b, a directory or a file on disk and in the list; c.txt, never a directory)
ScaffoldRoot == <<"r", "o", "o", "t">>
DirPaths == {<<"a">>, <<"a", SLASH, "b">>}
FilePath == <<"c", ".", "t", "x", "t">>
RelPaths == DirPaths \cup {FilePath}

\* base_root / root and root_abs / rel
RootAbs == <<ScaffoldRoot>>
Target(rel) == RootAbs \o SplitOn(rel, SLASH)

Paths == {<<>>, RootAbs} \cup {Target(rel) : rel \in RelPaths}

Parent(p) == SubSeq(p, 1, Len(p) - 1)

Prefixes(p) == {SubSeq(p, 1, n) : n \in 0..Len(p)}

\* the file systems: below base_root, a node exists only in a directory
FileSystems ==
    {f \in [Paths -> {Absent, Dir, File(<<>>), File(<<"o">>)}] :
        /\ f[<<>>] = Dir
        /\ f[Target(FilePath)] # Dir
        /\ \A p \in Paths \ {<<>>} : f[p] # Absent => f[Parent(p)] = Dir}

\* the entries: a and a/b as a directory or a file, c.txt as a file
EntryValues == {<<rel, d>> : rel \in DirPaths, d \in BOOLEAN} \cup {<<FilePath, FALSE>>}

EntryLists == UNION {[1..n -> EntryValues] : n \in 0..MaxEntries}

\* the if-not-dry guard with the dry flag ignored
PerformsAlways(dry) == TRUE

\* if not dry:
Performs(dry) == ~dry

\* p.mkdir(parents=True, exist_ok=True) succeeds: no file is in the way
CanMkdir(f, p) == \A q \in Prefixes(p) : f[q].kind # "file"

\* the file system after p.mkdir(parents=True, exist_ok=True)
MkdirP(f, p) == [q \in Paths |-> IF q \in Prefixes(p) THEN Dir ELSE f[q]]

\* a touch that opens the target in append mode, whatever is there
TouchAppend(node, frc, content) ==
    IF node.kind = "dir" THEN node ELSE File(node.content \o content)

\* the write policy that also overwrites an empty file without force
TouchFileEmptyToo(node, frc, content) ==
    IF node.kind = "none" \/ node = File(<<>>) \/ (frc /\ node.kind = "file")
    THEN File(content)
    ELSE node

\* the node of the target after lines 177-186: kept when it exists, unless
\* force is set and it is a file; written otherwise
TouchFile(node, frc, content) ==
    IF node.kind # "none" /\ ~(frc /\ node.kind = "file")
    THEN node
    ELSE File(content)

Idle == [pc |-> "idle"]

BuildInit ==
    /\ sentries \in EntryLists
    /\ force \in BOOLEAN
    /\ dfc \in {<<>>, <<"n">>}
    /\ fs \in FileSystems
    /\ call = Idle
    /\ results = <<>>
    /\ FrontIdle /\ ParseIdle

\* an invocation of create_scaffold on the inputs, dry or not
Begin ==
    /\ call.pc = "idle" /\ Len(results) < MaxCalls
    /\ \E d \in BOOLEAN :
           call' = [pc |-> "root", dry |-> d, k |-> 1, actions |-> <<>>, before |-> fs]
    /\ UNCHANGED <<sentries, force, dfc, fs, results, frontVars, parseVars>>

Raised(acts) ==
    /\ results' = Append(results, [dry |-> call.dry, status |-> "raised", actions |-> acts,
                                   before |-> call.before, after |-> fs])
    /\ call' = Idle
    /\ UNCHANGED <<sentries, force, dfc, fs, frontVars, parseVars>>

\* actions.append(("mkdir", root_abs)); root_abs.mkdir(...) unless dry
MkRoot ==
    /\ call.pc = "root"
    /\ Performs(call.dry) => CanMkdir(fs, RootAbs)
    /\ call' = [call EXCEPT !.pc = "loop", !.actions = Append(@, <<"mkdir", RootAbs>>)]
    /\ fs' = IF Performs(call.dry) THEN MkdirP(fs, RootAbs) ELSE fs
    /\ UNCHANGED <<sentries, force, dfc, results, frontVars, parseVars>>

\* root_abs.mkdir raises: a file is in the way
MkRootRaise ==
    /\ call.pc = "root"
    /\ Performs(call.dry) /\ ~CanMkdir(fs, RootAbs)
    /\ Raised(Append(call.actions, <<"mkdir", RootAbs>>))

\* a directory entry
EntryDir ==
    /\ call.pc = "loop" /\ call.k <= Len(sentries)
    /\ sentries[call.k][2]
    /\ LET target == Target(sentries[call.k][1])
       IN /\ Performs(call.dry) => CanMkdir(fs, target)
          /\ call' = [call EXCEPT !.k = @ + 1, !.actions = Append(@, <<"mkdir", target>>)]
          /\ fs' = IF Performs(call.dry) THEN MkdirP(fs, target) ELSE fs
    /\ UNCHANGED <<sentries, force, dfc, results, frontVars, parseVars>>

\* target.mkdir raises
EntryDirRaise ==
    /\ call.pc = "loop" /\ call.k <= Len(sentries)
    /\ sentries[call.k][2]
    /\ Performs(call.dry) /\ ~CanMkdir(fs, Target(sentries[call.k][1]))
    /\ Raised(Append(call.actions, <<"mkdir", Target(sentries[call.k][1])>>))

\* a file entry
EntryFile ==
    /\ call.pc = "loop" /\ call.k <= Len(sentries)
    /\ ~sentries[call.k][2]
    /\ LET target == Target(sentries[call.k][1])
           made == MkdirP(fs, Parent(target))
       IN /\ Performs(call.dry) => CanMkdir(fs, Parent(target))
          /\ call' = [call EXCEPT !.k = @ + 1, !.actions = Append(@, <<"touch", target>>)]
          /\ fs' = IF Performs(call.dry)
                   THEN [made EXCEPT ![target] = TouchFile(made[target], force, dfc)]
                   ELSE fs
    /\ UNCHANGED <<sentries, force, dfc, results, frontVars, parseVars>>

\* target.parent.mkdir raises, before the touch is recorded
EntryFileRaise ==
    /\ call.pc = "loop" /\ call.k <= Len(sentries)
    /\ ~sentries[call.k][2]
    /\ Performs(call.dry) /\ ~CanMkdir(fs, Parent(Target(sentries[call.k][1])))
    /\ Raised(call.actions)

\* return actions
Finish ==
    /\ call.pc = "loop" /\ call.k > Len(sentries)
    /\ results' = Append(results, [dry |-> call.dry, status |-> "returned",
                                   actions |-> call.actions,
                                   before |-> call.before, after |-> fs])
    /\ call' = Idle
    /\ UNCHANGED <<sentries, force, dfc, fs, frontVars, parseVars>>

BuildNext ==
    \/ Begin
    \/ MkRoot
    \/ MkRootRaise
    \/ EntryDir
    \/ EntryDirRaise
    \/ EntryFile
    \/ EntryFileRaise
    \/ Finish

SpecBuild == BuildInit /\ [][BuildNext]_vars

(***************************************************************************)
(* Properties of the scaffold builder                                      *)
(***************************************************************************)
\* a step of a run that is not dry over a file entry, the step not raising
FileEntryStep ==
    /\ call.pc = "loop" /\ ~call.dry
    /\ call.k <= Len(sentries) /\ ~sentries[call.k][2]
    /\ call'.pc = "loop" /\ call'.k = call.k + 1

\* C4 as stated: without dryRun, a file entry's target ends with
\* defaultFileContent when it did not exist, or force is set, or it was an empty
\* file; a non-empty file without force keeps its content; the touch is
\* recorded either way.  (A target that is a directory is left out.)
C4_WritePolicy ==
    [][FileEntryStep =>
        LET target == Target(sentries[call.k][1])
        IN fs[target].kind # "dir" =>
              /\ call'.actions = Append(call.actions, <<"touch", target>>)
              /\ IF \/ fs[target].kind = "none"
                    \/ force
                    \/ fs[target] = File(<<>>)
                 THEN fs'[target] = File(dfc)
                 ELSE fs'[target] = fs[target]]_vars

\* C4 as amended: without dryRun, a file entry's target ends with
\* defaultFileContent when it did not exist, or when force is set and it was a
\* file; a target that existed keeps its kind and content without force, empty
\* or not (and a directory in any case); the touch is recorded either way.
C4_WritePolicyForceOnly ==
    [][FileEntryStep =>
        LET target == Target(sentries[call.k][1])
        IN /\ call'.actions = Append(call.actions, <<"touch", target>>)
           /\ IF \/ fs[target].kind = "none"
                 \/ (force /\ fs[target].kind = "file")
              THEN fs'[target] = File(dfc)
              ELSE fs'[target] = fs[target]]_vars

\* a run that met an empty file without force and a content to write
C4_Witness ==
    /\ Len(results) = 1 /\ ~results[1].dry /\ results[1].status = "returned"
    /\ ~force /\ dfc # <<>>
    /\ \E n \in 1..Len(sentries) :
           /\ ~sentries[n][2]
           /\ results[1].before[Target(sentries[n][1])] = File(<<>>)
           /\ results[1].after[Target(sentries[n][1])] = File(<<>>)
           /\ results[1].actions[n + 1] = <<"touch", Target(sentries[n][1])>>

\* the action list of the entries: mkdir of the root, then a mkdir or a touch
\* per entry, in entry order
Planned ==
    <<<<"mkdir", RootAbs>>>> \o
    [n \in 1..Len(sentries) |->
        <<IF sentries[n][2] THEN "mkdir" ELSE "touch", Target(sentries[n][1])>>]

SecondRun(n) == n > 1 /\ ~force /\ ~results[n - 1].dry

\* C6: without force and without dryRun, a run right after a run over the same
\* inputs changes nothing: at each of its steps and at its end the file system
\* is the one the first run left (no content changed, no path removed).
C6_SecondRunChangesNothing ==
    /\ (call.pc # "idle" /\ ~call.dry /\ SecondRun(Len(results) + 1))
           => fs = results[Len(results)].after
    /\ \A n \in 1..Len(results) :
           (~results[n].dry /\ SecondRun(n)) => results[n].after = results[n - 1].after

C6_Witness ==
    /\ Len(results) = 2 /\ ~force
    /\ ~results[1].dry /\ ~results[2].dry
    /\ results[1].status = "returned" /\ results[2].status = "returned"
    /\ results[1].after # results[1].before
    /\ \E n \in 1..Len(sentries) :
           /\ ~sentries[n][2]
           /\ results[2].before[Target(sentries[n][1])].kind = "file"
           /\ results[2].before[Target(sentries[n][1])].content # <<>>

====
